---------------------------- MODULE Spec2Model ----------------------------
(***************************************************************************)
(* Model of the EmpresasX back-end (src/backend/main.py, db_init.py).       *)
(*                                                                         *)
(* A Python str is a sequence of atoms: one-character strings where the     *)
(* code looks at characters (ILIKE, strip, upper, split, slicing), and an   *)
(* opaque multi-character atom where it does not.  Python's None and SQL's  *)
(* NULL are the value None below.                                           *)
(***************************************************************************)
EXTENDS Integers, Sequences, FiniteSets, TLC

VARIABLES
    db,                 \* the DuckDB file behind `con` (main.py:28-33)
    call,               \* the last direct call of a lookup tool and its outcome
    chat_history,       \* SQLite table chat_history (main.py:46-56)
    long_term_memory,   \* SQLite FTS5 table long_term_memory (main.py:57-64)
    now,                \* the clock read by time.time() (main.py:326)
    uuids,              \* how many uuid4() session ids were drawn (main.py:421)
    reqs,               \* the /ask requests received so far, by arrival
    df_raw,             \* db_init.py: the rows read from estabelecimentos
    vec,                \* db_init.py: the last make_vec call and its outcome
    sched               \* the threads of the server: who holds the event loop,
                        \* and where each /ask handler and its agent run stand

vars ==
    <<db, call, chat_history, long_term_memory, now, uuids, reqs, df_raw, vec,
      sched>>

\* Everything but the threads.
data_vars ==
    <<db, call, chat_history, long_term_memory, now, uuids, reqs, df_raw, vec>>

---------------------------------------------------------------------------
(* Bounds of the model. *)
MaxEmpresas == 2
MaxNomeLen == 2
MaxEstab == 2

---------------------------------------------------------------------------
(* Values *)

None == <<"None">>

Min(a, b) == IF a < b THEN a ELSE b

\* The characters a company name or a search text is made of.
Alphabet == {"a", "A", "b", " ", "_", "%"}

\* Sample legal names (razao_social) of the registry data.
RazaoSocialSamples ==
    { <<"A", "b">>, <<"b", "a">>, <<"a", " ", "b">>, <<"B">> }

\* Sample company ids (cnpj_basico), by position in table empresas.
CnpjOf == << <<"1">>, <<"2">>, <<"3">>, <<"4">> >>

Lower(c) == CASE c = "A" -> "a" [] c = "B" -> "b" [] OTHER -> c

Upper(c) == CASE c = "a" -> "A" [] c = "b" -> "B" [] OTHER -> c

IsSpace(c) == c = " "

\* All sequences over S of length at most n.
SeqUpTo(S, n) == UNION { [1..k -> S] : k \in 0..n }

\* str.strip(): leading and trailing whitespace removed.
RECURSIVE LStrip(_)
LStrip(s) == IF s # <<>> /\ IsSpace(Head(s)) THEN LStrip(Tail(s)) ELSE s

RECURSIVE RStrip(_)
RStrip(s) ==
    IF s # <<>> /\ IsSpace(s[Len(s)]) THEN RStrip(SubSeq(s, 1, Len(s) - 1)) ELSE s

Strip(s) == RStrip(LStrip(s))

\* SQL `s LIKE p` with the case folded (ILIKE): in the pattern % matches any
\* run of characters, _ any one character, and no escape character is set.
RECURSIVE ILike(_, _)
ILike(s, p) ==
    IF p = <<>> THEN s = <<>>
    ELSE IF Head(p) = "%"
         THEN ILike(s, Tail(p)) \/ (s # <<>> /\ ILike(Tail(s), p))
         ELSE /\ s # <<>>
              /\ (Head(p) = "_" \/ Lower(Head(s)) = Lower(Head(p)))
              /\ ILike(Tail(s), Tail(p))

---------------------------------------------------------------------------
(* The DuckDB database.  duckdb.connect creates an empty database when the *)
(* file does not exist; the registry tables and the FTS index are loaded   *)
(* by other programs (db_init.py:30-32 builds the index).                  *)

FreshDb ==
    [loaded |-> FALSE, fts |-> FALSE, empresas |-> <<>>,
     estabelecimentos |-> <<>>, municipios |-> {}]

\* Tables empresas with n rows, in storage order.
EmpresasTables(n) ==
    UNION { { [i \in 1..k |->
                 [cnpj_basico |-> CnpjOf[i], razao_social |-> f[i]]] :
               f \in [1..k -> RazaoSocialSamples] } : k \in 0..n }

\* An establishment row: matriz_filial is the registry's headquarters/branch
\* flag (1 headquarters, 2 branch); ordem numbers the row within the table.
EstabChoices ==
    [cnpj_basico : {CnpjOf[1], CnpjOf[2]},
     matriz_filial : {1, 2},
     municipio : {<<"m1">>, <<"m9">>},
     complemento : {<<"c">>, None}]

EstabTables(n) ==
    UNION { { [i \in 1..k |->
                 [cnpj_basico |-> f[i].cnpj_basico, ordem |-> i,
                  matriz_filial |-> f[i].matriz_filial,
                  municipio |-> f[i].municipio,
                  complemento |-> f[i].complemento]] :
               f \in [1..k -> EstabChoices] } : k \in 0..n }

\* Table municipios: code m1 is known, code m9 is not.
Municipios == { [codigo |-> <<"m1">>, descricao |-> <<"Cidade">>] }

SampleEmpresas ==
    << [cnpj_basico |-> CnpjOf[1], razao_social |-> <<"A", "b">>],
       [cnpj_basico |-> CnpjOf[2], razao_social |-> <<"b", "a">>] >>

ResolverDbs ==
    { [loaded |-> TRUE, fts |-> f, empresas |-> e,
       estabelecimentos |-> <<>>, municipios |-> Municipios] :
        f \in BOOLEAN, e \in EmpresasTables(MaxEmpresas) }

FactDbs ==
    { [loaded |-> TRUE, fts |-> FALSE, empresas |-> <<>>,
       estabelecimentos |-> t, municipios |-> Municipios] :
        t \in EstabTables(MaxEstab) }

---------------------------------------------------------------------------
(* busca_empresa *)

\* What a raised exception looks like to the caller: its class and the
\* query that raised it.
Raise(exc, query) == [kind |-> "raise", exc |-> exc, query |-> query]

IsRaise(r) == r.kind = "raise"

EmpresaRow(cnpj, razao_social) ==
    [kind |-> "EmpresaRow", cnpj |-> cnpj, razao_social |-> razao_social]

\* The outcomes of the ranked (BM25) query of stage 1.  The ranking is the
\* FTS extension's: any indexed row may come first.  Without the tables or
\* without the index the query raises duckdb.CatalogException; a text with
\* no term in it scores no row.
LexOutcomes(d, nome) ==
    IF ~d.loaded \/ ~d.fts
    THEN { [kind |-> "raise", i |-> 0] }
    ELSE { [kind |-> "norow", i |-> 0] } \cup
         { [kind |-> "row", i |-> i] :
             i \in { j \in 1..Len(d.empresas) : Strip(nome) # <<>> } }

\* Stage 2: WHERE razao_social ILIKE '%' || ? || '%' LIMIT 1.
SubstringStage(d, nome) ==
    IF ~d.loaded THEN Raise("CatalogException", "ilike")
    ELSE LET hits == { i \in 1..Len(d.empresas) :
                         /\ d.empresas[i].razao_social # None
                         /\ ILike(d.empresas[i].razao_social,
                                  <<"%">> \o nome \o <<"%">>) }
         IN  IF hits # {}
             THEN LET i == CHOOSE h \in hits : \A g \in hits : h <= g
                  IN  EmpresaRow(d.empresas[i].cnpj_basico,
                                 d.empresas[i].razao_social)
             ELSE EmpresaRow(None, None)

\* Stage 1 with the except clause that leaves it: the query propagates every
\* exception (used to see that the clause matters).
BuscaEmpresaNoExcept(d, nome, lex) ==
    CASE lex.kind = "row" ->
            [ret |-> EmpresaRow(d.empresas[lex.i].cnpj_basico,
                                d.empresas[lex.i].razao_social),
             log |-> <<"bm25">>]
      [] lex.kind = "raise" ->
            [ret |-> Raise("CatalogException", "bm25"), log |-> <<"bm25">>]
      [] OTHER ->
            [ret |-> SubstringStage(d, nome), log |-> <<"bm25", "ilike">>]

\* busca_empresa(nome): ret is what the call returns or raises, log the
\* storage queries it issued, in order.
busca_empresa(d, nome, lex) ==
    IF lex.kind = "row"
    THEN [ret |-> EmpresaRow(d.empresas[lex.i].cnpj_basico,
                             d.empresas[lex.i].razao_social),
          log |-> <<"bm25">>]
    ELSE [ret |-> SubstringStage(d, nome), log |-> <<"bm25", "ilike">>]

---------------------------------------------------------------------------
(* busca_endereco *)

EmpresaEnderecoRow(cnpj_mascarado, nome_fantasia, endereco) ==
    [kind |-> "EmpresaEnderecoRow", cnpj_mascarado |-> cnpj_mascarado,
     nome_fantasia |-> nome_fantasia, endereco |-> endereco]

\* The text columns of establishment e joined with its municipio m; a NULL
\* operand of || makes the whole concatenation NULL.
EnderecoText(e, m) ==
    IF e.complemento = None THEN None
    ELSE <<"Endereco", e.ordem, m.descricao>>

busca_endereco(d, cnpj) ==
    IF ~d.loaded THEN Raise("CatalogException", "endereco")
    ELSE LET hits == { i \in 1..Len(d.estabelecimentos) :
                         /\ d.estabelecimentos[i].cnpj_basico = cnpj
                         /\ \E m \in d.municipios :
                              m.codigo = d.estabelecimentos[i].municipio }
         IN  IF hits # {}
             THEN LET i == CHOOSE h \in hits : \A g \in hits : h <= g
                      e == d.estabelecimentos[i]
                      m == CHOOSE x \in d.municipios : x.codigo = e.municipio
                  IN  EmpresaEnderecoRow(<<e.cnpj_basico, e.ordem>>,
                                         <<"fantasia", e.ordem>>,
                                         EnderecoText(e, m))
             ELSE EmpresaEnderecoRow(None, None, None)

---------------------------------------------------------------------------
(* Direct calls of the lookup tools: one call, of any tool with any        *)
(* argument, on every database of the bounds.                              *)

Nomes == SeqUpTo(Alphabet, MaxNomeLen)

CnpjArgs == {CnpjOf[1], CnpjOf[2], CnpjOf[3]}

NoCall == [fn |-> "none"]

\* No request in the server: the event loop is free and no handler exists.
Idle == [loop |-> 0, tasks |-> <<>>]

InitTools ==
    /\ db \in {FreshDb} \cup ResolverDbs \cup FactDbs
    /\ call = NoCall
    /\ chat_history = <<>>
    /\ long_term_memory = <<>>
    /\ now = 0
    /\ uuids = 0
    /\ reqs = <<>>
    /\ df_raw = <<>>
    /\ vec = NoCall
    /\ sched = Idle

CallBuscaEmpresa ==
    /\ call = NoCall
    /\ \E nome \in Nomes : \E lex \in LexOutcomes(db, nome) :
         call' = [fn |-> "busca_empresa", arg |-> nome, lex |-> lex,
                  out |-> busca_empresa(db, nome, lex)]
    /\ UNCHANGED <<db, chat_history, long_term_memory, now, uuids, reqs,
                   df_raw, vec, sched>>

CallBuscaEndereco ==
    /\ call = NoCall
    /\ \E cnpj \in CnpjArgs :
         call' = [fn |-> "busca_endereco", arg |-> cnpj,
                  out |-> [ret |-> busca_endereco(db, cnpj),
                           log |-> <<"endereco">>]]
    /\ UNCHANGED <<db, chat_history, long_term_memory, now, uuids, reqs,
                   df_raw, vec, sched>>

NextTools == CallBuscaEmpresa \/ CallBuscaEndereco

SpecTools == InitTools /\ [][NextTools]_vars

---------------------------------------------------------------------------
(* Claims about the resolver and the address lookup (SpecTools). *)

\* s contains t, letter case ignored, every character taken literally.
Contains(s, t) ==
    \E k \in 0..(Len(s) - Len(t)) :
        \A j \in 1..Len(t) : Lower(s[k + j]) = Lower(t[j])

NotFound == EmpresaRow(None, None)

\* C1: when stage 1 of busca_empresa fails (the index is unavailable, so the
\* query raises CatalogException, or the query yields no row), the call runs
\* stage 2 and its outcome is stage 2's outcome; the exception of stage 1
\* never leaves busca_empresa.
C1_LexicalFallback ==
    (call.fn = "busca_empresa" /\ call.lex.kind \in {"raise", "norow"}) =>
        /\ call.out.log = <<"bm25", "ilike">>
        /\ call.out.ret = SubstringStage(db, call.arg)
        /\ ~(IsRaise(call.out.ret) /\ call.out.ret.query = "bm25")

\* C1 witness: the index is unavailable and the fallback found a company
\* whose name holds the text.
C1_Witness ==
    /\ call.fn = "busca_empresa"
    /\ Strip(call.arg) # <<>>
    /\ call.lex.kind = "raise"
    /\ call.out.ret.kind = "EmpresaRow"
    /\ call.out.ret.cnpj # None
    /\ Contains(call.out.ret.razao_social, call.arg)

\* C2: when stage 1 gives no result, busca_empresa returns the first company
\* in storage order whose legal name contains the text, letter case ignored,
\* and the not-found result when no legal name contains it.
C2_SubstringContains ==
    (call.fn = "busca_empresa" /\ db.loaded /\ call.lex.kind # "row") =>
        LET hits == { i \in 1..Len(db.empresas) :
                        Contains(db.empresas[i].razao_social, call.arg) }
        IN  IF hits = {}
            THEN call.out.ret = NotFound
            ELSE LET i == CHOOSE h \in hits : \A g \in hits : h <= g
                 IN  call.out.ret = EmpresaRow(db.empresas[i].cnpj_basico,
                                               db.empresas[i].razao_social)

\* C3: for an empty or whitespace-only name busca_empresa returns the
\* not-found result and issues no storage query, also when the dataset is
\* not empty.
C3_BlankShortCircuit ==
    (/\ call.fn = "busca_empresa"
     /\ db.loaded /\ db.empresas # <<>>
     /\ Strip(call.arg) = <<>>) =>
        /\ call.out.ret = NotFound
        /\ call.out.log = <<>>

\* The municipio of every establishment of company cnpj is in municipios.
MunicipiosKnown(d, cnpj) ==
    \A i \in 1..Len(d.estabelecimentos) :
        d.estabelecimentos[i].cnpj_basico = cnpj =>
            \E m \in d.municipios : m.codigo = d.estabelecimentos[i].municipio

\* C5: busca_endereco answers from the establishment flagged as headquarters
\* only: the not-found result when the company has none, the headquarters'
\* record when it has one (stated for registry data whose municipio codes
\* are all known).
C5_HeadquartersOnly ==
    (/\ call.fn = "busca_endereco"
     /\ db.loaded
     /\ MunicipiosKnown(db, call.arg)) =>
        LET hq == { i \in 1..Len(db.estabelecimentos) :
                      /\ db.estabelecimentos[i].cnpj_basico = call.arg
                      /\ db.estabelecimentos[i].matriz_filial = 1 }
        IN  IF hq = {}
            THEN call.out.ret = EmpresaEnderecoRow(None, None, None)
            ELSE \E i \in hq :
                   call.out.ret.cnpj_mascarado = <<call.arg, i>>

---------------------------------------------------------------------------
(* The conversation memory (SQLite, connection mem_con). *)

HistoryLimit == 10
LastConvLimit == 6

\* The (role, content) pairs of the rows at positions F of table tbl,
\* ORDER BY ts DESC LIMIT limit, then reversed: oldest first.
LastRows(tbl, F, limit) ==
    LET top == { i \in F :
                   Cardinality({ j \in F : tbl[j].ts > tbl[i].ts }) < limit }
        at(k) == CHOOSE i \in top :
                   Cardinality({ j \in top : tbl[j].ts < tbl[i].ts }) = k - 1
    IN  [k \in 1..Cardinality(top) |-> <<tbl[at(k)].role, tbl[at(k)].content>>]

get_history(tbl, session_id) ==
    LastRows(tbl, { i \in 1..Len(tbl) : tbl[i].session_id = session_id },
             HistoryLimit)

get_last_conv_by_user(tbl, user_name) ==
    LastRows(tbl, { i \in 1..Len(tbl) : tbl[i].user_name = user_name },
             LastConvLimit)

add_msg(tbl, ts, session_id, user_name, role, content) ==
    Append(tbl, [session_id |-> session_id, user_name |-> user_name,
                 ts |-> ts, role |-> role, content |-> content])

add_long_term(tbl, content, metadata) ==
    Append(tbl, [content |-> content, metadata |-> metadata])

---------------------------------------------------------------------------
(* POST /ask.  The handler runs on the event loop; it is suspended once,   *)
(* at `await busca_agent.run(...)`, while the agent calls the lookup tools *)
(* and produces its final result.  Steps 2 and 4 of the handler only build *)
(* the text given to the agent.  The agent is the language model's: here   *)
(* it may call busca_empresa with the company name of the question, then   *)
(* busca_endereco with the cnpj found, and it reports what the tools       *)
(* returned; it may also end without calling a tool.  The tools only read  *)
(* the database, which no request changes, so the whole run is taken at    *)
(* the moment it ends.                                                     *)

MaxRequests == 2

\* Values of the X-Session-ID header and of payload.user.
Headers == {None, <<"s1">>}
Users == {None, <<"ana">>}

\* uuid4() session ids, in the order drawn.
UuidOf == << <<"u1">>, <<"u2">>, <<"u3">>, <<"u4">> >>

\* Questions (payload.q): an intent, a space and a company name.
QAddress == <<"Onde fica", " ", "A", "b">>
QFiliais == <<"Quantas filiais tem", " ", "A", "b">>
QSimilar == <<"Empresas parecidas com", " ", "A", "b">>
Questions == {<<>>, <<" ">>, QAddress, QFiliais, QSimilar}

UpperStr(s) == [i \in 1..Len(s) |-> Upper(s[i])]

\* The company name the agent reads in the (upper-cased) message.
AgentNome(question) == SubSeq(UpperStr(question), 3, Len(question))

\* A record-typed field that is None.
NoneRow == [kind |-> "None"]

NotCalled == [kind |-> "notcalled"]

Result(cnpj, razao_social, endereco) ==
    [cnpj |-> cnpj, razao_social |-> razao_social, explicacao |-> None,
     simples |-> None, socios |-> None, natureza |-> NoneRow,
     cnaes |-> NoneRow, contato |-> NoneRow, endereco |-> endereco]

\* res.data of an agent run that ended with the tool values r.
AgentData(r) ==
    Result(IF r.empresa = NotCalled THEN None ELSE r.empresa.cnpj,
           IF r.empresa = NotCalled THEN None ELSE r.empresa.razao_social,
           IF r.endereco = NotCalled THEN NoneRow ELSE r.endereco)

\* Python truth of a str | None.
Truthy(x) == x # None /\ x # <<>>

AnswerText(data) ==
    IF ~Truthy(data.cnpj)
    THEN <<"Empresa nao encontrada">>
    ELSE <<"CNPJ: ">> \o data.cnpj \o <<", Razao Social: ">> \o data.razao_social

Metadata(user_name) ==
    <<"{'user':'">> \o (IF Truthy(user_name) THEN user_name ELSE <<>>) \o <<"'}">>

\* Step 3: the greeting block, an empty dict when there is none.
GreetingBlock(tbl, session_id, user_name) ==
    IF Truthy(user_name) /\ get_history(tbl, session_id) = <<>>
    THEN LET prev == get_last_conv_by_user(tbl, user_name)
         IN  IF prev # <<>>
             THEN [greeting |-> <<"Bem-vindo(a) de volta, ">> \o user_name,
                   previous |-> [k \in 1..Len(prev) |->
                                   [role |-> prev[k][1], content |-> prev[k][2]]]]
             ELSE [greeting |-> <<"Ola, ">> \o user_name]
    ELSE <<>>

\* The dict agent_result of step 5.
AgentResult(data, session_id) ==
    [cnpj |-> data.cnpj, razao_social |-> data.razao_social,
     explicacao |-> data.explicacao]
    @@ (IF data.simples # None THEN "simples" :> data.simples ELSE <<>>)
    @@ (IF data.socios # None THEN "socios" :> data.socios ELSE <<>>)
    @@ (IF data.natureza # NoneRow THEN "natureza" :> data.natureza ELSE <<>>)
    @@ (IF data.cnaes # NoneRow THEN "cnaes" :> data.cnaes ELSE <<>>)
    @@ (IF data.contato # NoneRow THEN "contato" :> data.contato ELSE <<>>)
    @@ [session_id |-> session_id]

\* Step 6: response.update(greeting_block), response.update(agent_result),
\* and the "erro" payload when both are empty.
Response(greeting_block, agent_result, session_id) ==
    LET response == agent_result @@ greeting_block
    IN  IF DOMAIN response = {}
        THEN [erro |-> <<"Nada para processar">>, session_id |-> session_id]
        ELSE response

Json(body) == [kind |-> "json", body |-> body]

\* The exception left busca_agent.run and ask: the server answers 500.
Uncaught(exc) == [kind |-> "uncaught", exc |-> exc]

Pending == [kind |-> "pending"]

\* ask, up to the await (a request with a question) or to its end.
AskStart(x_session_id, user, q) ==
    /\ Len(reqs) < MaxRequests
    /\ LET fresh == ~Truthy(x_session_id)
           session_id == IF fresh THEN UuidOf[uuids + 1] ELSE x_session_id
           question == Strip(q)
           stripped == Strip(IF user = None THEN <<>> ELSE user)
           user_name == IF stripped = <<>> THEN None ELSE stripped
           greeting_block == GreetingBlock(chat_history, session_id, user_name)
       IN  /\ uuids' = IF fresh THEN uuids + 1 ELSE uuids
           /\ reqs' = Append(reqs,
                  [session_id |-> session_id, user_name |-> user_name,
                   question |-> question, greeting_block |-> greeting_block,
                   data |-> NoneRow,
                   pc |-> IF question # <<>> THEN "agent" ELSE "done",
                   response |-> IF question # <<>> THEN Pending
                                ELSE Json(Response(greeting_block, <<>>,
                                                   session_id))])
    /\ UNCHANGED <<db, call, chat_history, long_term_memory, now, df_raw, vec,
                   sched>>

\* The outcomes of busca_agent.run for a question: the values the tools
\* returned to the agent, or the exception a tool raised, which leaves the
\* run (the agent catches none).
AgentOutcomes(d, question) ==
    LET nome == AgentNome(question)
        found == { busca_empresa(d, nome, lex).ret : lex \in LexOutcomes(d, nome) }
    IN  { [kind |-> "data", empresa |-> NotCalled, endereco |-> NotCalled] }
        \cup { IF IsRaise(e) THEN e
               ELSE [kind |-> "data", empresa |-> e, endereco |-> NotCalled] :
               e \in found }
        \cup { IF IsRaise(busca_endereco(d, e.cnpj))
               THEN busca_endereco(d, e.cnpj)
               ELSE [kind |-> "data", empresa |-> e,
                     endereco |-> busca_endereco(d, e.cnpj)] :
               e \in { f \in found : ~IsRaise(f) /\ Truthy(f.cnpj) } }

\* The same step storing every answer, found or not.
PersistLongTermAlways(tbl, data, answer_text, user_name) ==
    add_long_term(tbl, answer_text, Metadata(user_name))

\* Step 5, long-term memory: `if res.data.cnpj: _add_long_term(...)`.
PersistLongTerm(tbl, data, answer_text, user_name) ==
    IF Truthy(data.cnpj)
    THEN add_long_term(tbl, answer_text, Metadata(user_name))
    ELSE tbl

\* The agent run of request r ends and ask resumes after the await: with
\* the agent's result, the rest of step 5 and step 6; with an exception,
\* which ask does not catch, nothing more.
AskFinish(r) ==
    /\ reqs[r].pc = "agent"
    /\ \E o \in AgentOutcomes(db, reqs[r].question) :
         IF IsRaise(o)
         THEN /\ reqs' = [reqs EXCEPT ![r].pc = "failed",
                                      ![r].response = Uncaught(o)]
              /\ UNCHANGED <<chat_history, now, long_term_memory>>
         ELSE LET data == AgentData(o)
                  answer_text == AnswerText(data)
                  session_id == reqs[r].session_id
                  user_name == reqs[r].user_name
              IN  /\ chat_history' =
                        add_msg(add_msg(chat_history, now + 1, session_id,
                                        user_name, "user", reqs[r].question),
                                now + 2, session_id, user_name, "assistant",
                                answer_text)
                  /\ now' = now + 2
                  /\ long_term_memory' =
                        PersistLongTerm(long_term_memory, data, answer_text,
                                        user_name)
                  /\ reqs' = [reqs EXCEPT
                         ![r].pc = "done",
                         ![r].data = data,
                         ![r].response =
                             Json(Response(reqs[r].greeting_block,
                                           AgentResult(data, session_id),
                                           session_id))]
    /\ UNCHANGED <<db, call, uuids, df_raw, vec, sched>>

\* The databases the service is started on: the empty one duckdb.connect
\* creates, and a loaded one (a company with a headquarters and a branch).
AskDb ==
    [loaded |-> TRUE, fts |-> TRUE, empresas |-> SampleEmpresas,
     estabelecimentos |->
        << [cnpj_basico |-> CnpjOf[1], ordem |-> 1, matriz_filial |-> 1,
            municipio |-> <<"m1">>, complemento |-> <<"c">>],
           [cnpj_basico |-> CnpjOf[1], ordem |-> 2, matriz_filial |-> 2,
            municipio |-> <<"m1">>, complemento |-> <<"c">>] >>,
     municipios |-> Municipios]

Init ==
    /\ db \in {FreshDb, AskDb}
    /\ call = NoCall
    /\ chat_history = <<>>
    /\ long_term_memory = <<>>
    /\ now = 0
    /\ uuids = 0
    /\ reqs = <<>>
    /\ df_raw = <<>>
    /\ vec = NoCall
    /\ sched = Idle

Next ==
    \/ \E h \in Headers, u \in Users, q \in Questions : AskStart(h, u, q)
    \/ \E r \in 1..Len(reqs) : AskFinish(r)

Spec == Init /\ [][Next]_vars

---------------------------------------------------------------------------
(* Claims about /ask (Spec). *)

\* The requests that have ended: answered, or left by an exception.
Ended == { r \in 1..Len(reqs) : reqs[r].pc # "agent" }

\* The requests answered by ask's return statement.
Done == { r \in 1..Len(reqs) : reqs[r].pc = "done" }

Intent(r) == IF reqs[r].question = <<>> THEN "" ELSE Head(reqs[r].question)

\* The agent of request r resolved the company the question names.
Resolved(r) ==
    /\ reqs[r].question # <<>>
    /\ Truthy(reqs[r].data.cnpj)
    /\ Contains(reqs[r].data.razao_social,
                SubSeq(reqs[r].question, 3, Len(reqs[r].question)))

\* C4: every /ask request ends with a structured response; no exception of a
\* storage query of the resolver or of a fact lookup reaches the caller.
C4_AlwaysStructured ==
    \A r \in Ended : reqs[r].response.kind = "json"

\* C6: the answer to a question about where a resolvable company is located
\* has the top-level keys logradouro, municipio and uf; the answer to a
\* question about its number of branches has the top-level key filiais.
C6_ResponseKeys ==
    \A r \in Done :
        Resolved(r) =>
            /\ (/\ Intent(r) = "Onde fica"
                /\ reqs[r].data.endereco # NoneRow
                /\ reqs[r].data.endereco.endereco # None) =>
                   {"logradouro", "municipio", "uf"}
                       \subseteq DOMAIN reqs[r].response.body
            /\ Intent(r) = "Quantas filiais tem" =>
                   "filiais" \in DOMAIN reqs[r].response.body

\* C7: the answer to a "companies similar to X" question about a resolvable
\* company is a non-empty list whose entries have razao_social and a score
\* between 0 and 1.
C7_SimilarityList ==
    \A r \in Done :
        (Intent(r) = "Empresas parecidas com" /\ Resolved(r)) =>
            /\ reqs[r].response.kind = "list"
            /\ Len(reqs[r].response.body) > 0
            /\ \A k \in 1..Len(reqs[r].response.body) :
                 /\ {"razao_social", "score"}
                        \subseteq DOMAIN reqs[r].response.body[k]
                 /\ reqs[r].response.body[k].score >= 0
                 /\ reqs[r].response.body[k].score <= 1

\* Request r is the first of its session that carries a user name.
FirstNamed(r) ==
    /\ reqs[r].user_name # None
    /\ \A e \in 1..(r - 1) :
         reqs[e].session_id = reqs[r].session_id => reqs[e].user_name = None

\* C9: in every session the first request that carries a user name is
\* answered with a greeting, also when earlier requests of the session
\* carried a question and no user name.
C9_FirstNamedGreeted ==
    \A r \in Done :
        FirstNamed(r) => "greeting" \in DOMAIN reqs[r].response.body

\* The requests that carried a question and have ended.
Asked == { r \in Ended : reqs[r].question # <<>> }

\* C10: every request with a question appends two rows to chat_history, the
\* question (role user) and then the answer (role assistant), both with the
\* request's session_id and user_name; a request without one appends none.
C10_EveryTurnStored ==
    /\ Len(chat_history) = 2 * Cardinality(Asked)
    /\ \A r \in Asked :
         \E i \in 1..(Len(chat_history) - 1) :
            /\ chat_history[i].role = "user"
            /\ chat_history[i].content = reqs[r].question
            /\ chat_history[i + 1].role = "assistant"
            /\ \A j \in {i, i + 1} :
                 /\ chat_history[j].session_id = reqs[r].session_id
                 /\ chat_history[j].user_name = reqs[r].user_name

\* The requests whose question was processed with a result that has a cnpj.
FoundCnpj == { r \in Done : reqs[r].question # <<>> /\ Truthy(reqs[r].data.cnpj) }

\* C11: long-term memory holds an entry only for an answer in which a CNPJ
\* was found: every row is the "CNPJ: ..., Razao Social: ..." answer of a
\* request whose result had a cnpj, "Empresa nao encontrada" is never stored,
\* and there are as many rows as processed questions whose result had a cnpj.
C11_LongTermOnlyFound ==
    /\ Len(long_term_memory) = Cardinality(FoundCnpj)
    /\ \A i \in 1..Len(long_term_memory) :
         /\ long_term_memory[i].content # <<"Empresa nao encontrada">>
         /\ Head(long_term_memory[i].content) = "CNPJ: "
         /\ \E r \in FoundCnpj :
              long_term_memory[i].content =
                  <<"CNPJ: ">> \o reqs[r].data.cnpj
                      \o <<", Razao Social: ">> \o reqs[r].data.razao_social

\* C11 witness: one question was answered with a cnpj and another with
\* "Empresa nao encontrada", and one row is stored.
C11_Witness ==
    /\ Len(long_term_memory) = 1
    /\ \E r \in Done : reqs[r].question # <<>> /\ ~Truthy(reqs[r].data.cnpj)
    /\ \E i \in 1..Len(chat_history) :
         chat_history[i].content = <<"Empresa nao encontrada">>

---------------------------------------------------------------------------
(* The threads of the server and the two connections.  ask is a coroutine:  *)
(* from its start to `await busca_agent.run(...)`, and from there to its    *)
(* return, it runs on the event-loop thread, which runs one handler at a    *)
(* time; every mem_con query is made there.  The lookup tools are plain     *)
(* `def` functions, which the agent calls in a worker thread while the      *)
(* handler is suspended; every con query is made there.  A query is the     *)
(* statement `X.execute(...)` with its `.fetchone()`/`.fetchall()` or       *)
(* `commit()`: it is in progress from the execute to the fetch.  Nothing in *)
(* main.py takes a lock or opens a cursor.                                  *)

Tools ==
    {"busca_empresa", "busca_endereco", "busca_simples", "lista_socios",
     "busca_natureza", "busca_cnaes", "busca_contato"}

\* The queries a call of tool t makes at most.
NQueries(t) == IF t = "busca_empresa" THEN 2 ELSE 1

\* The memory functions ask calls, each one query on mem_con.
MemOps ==
    {"_get_history", "_search_long_term", "_get_last_conv_by_user",
     "_add_msg user", "_add_msg assistant", "_add_long_term"}

\* Where ask goes after step 3 (the greeting).
AfterGreeting(t) == IF t.question THEN "await" ELSE "return"

\* Where ask goes after step 2: _get_last_conv_by_user is called
\* `if user_name and not short_mem`.
AfterSearch(t) ==
    IF t.user /\ ~t.short_mem THEN "_get_last_conv_by_user" ELSE AfterGreeting(t)

\* Where the handler t goes after the memory function at t.pc returned;
\* _search_long_term returns at once, with no query, for a blank question.
AfterMemOp(t) ==
    CASE t.pc = "_get_history" ->
             IF t.question THEN "_search_long_term" ELSE AfterSearch(t)
      [] t.pc = "_search_long_term" -> AfterSearch(t)
      [] t.pc = "_get_last_conv_by_user" -> AfterGreeting(t)
      [] t.pc = "_add_msg user" -> "_add_msg assistant"
      [] t.pc = "_add_msg assistant" ->
             IF t.found THEN "_add_long_term" ELSE "return"
      [] t.pc = "_add_long_term" -> "return"

\* A request arrives: its handler is created and waits for the event loop.
Arrive(user, question) ==
    /\ Len(sched.tasks) < MaxRequests
    /\ sched' = [sched EXCEPT !.tasks =
           Append(@, [user |-> user, question |-> question,
                      short_mem |-> FALSE, found |-> FALSE, pc |-> "start",
                      tool |-> "none", k |-> 0, on |-> "none"])]
    /\ UNCHANGED data_vars

\* The event loop, free, runs handler r: from the start of ask, or from the
\* await once the agent run has ended.
Run(r) ==
    /\ sched.loop = 0
    /\ sched.tasks[r].pc \in {"start", "resume"}
    /\ sched' = [sched EXCEPT
           !.loop = r,
           !.tasks[r].pc = IF @ = "start" THEN "_get_history"
                           ELSE "_add_msg user"]
    /\ UNCHANGED data_vars

\* Handler r, on the event loop, calls mem_con.execute.
MemExecute(r) ==
    /\ sched.loop = r
    /\ sched.tasks[r].pc \in MemOps
    /\ sched.tasks[r].on = "none"
    /\ sched' = [sched EXCEPT !.tasks[r].on = "mem_con"]
    /\ UNCHANGED data_vars

\* The query of handler r on mem_con ends (fetchall or commit) and the
\* memory function returns; rows tells whether _get_history found rows.
MemFetch(r, rows) ==
    /\ sched.loop = r
    /\ sched.tasks[r].on = "mem_con"
    /\ LET t == [sched.tasks[r] EXCEPT
                    !.short_mem = IF @ \/ sched.tasks[r].pc # "_get_history"
                                  THEN @ ELSE rows]
       IN  sched' = [sched EXCEPT
               !.tasks[r] = [t EXCEPT !.on = "none", !.pc = AfterMemOp(t)]]
    /\ UNCHANGED data_vars

\* Handler r reaches `await busca_agent.run(...)` and leaves the event loop.
Await(r) ==
    /\ sched.loop = r
    /\ sched.tasks[r].pc = "await"
    /\ sched' = [sched EXCEPT !.loop = 0, !.tasks[r].pc = "agent"]
    /\ UNCHANGED data_vars

\* Handler r returns its response and leaves the event loop.
Return(r) ==
    /\ sched.loop = r
    /\ sched.tasks[r].pc = "return"
    /\ sched' = [sched EXCEPT !.loop = 0, !.tasks[r].pc = "done"]
    /\ UNCHANGED data_vars

\* The agent of request r calls a lookup tool, in a worker thread.
ToolCall(r, tool) ==
    /\ sched.tasks[r].pc = "agent"
    /\ sched' = [sched EXCEPT !.tasks[r].pc = "tool",
                              !.tasks[r].tool = tool, !.tasks[r].k = 1]
    /\ UNCHANGED data_vars

\* The tool of request r calls con.execute.
ConExecute(r) ==
    /\ sched.tasks[r].pc = "tool"
    /\ sched.tasks[r].on = "none"
    /\ sched' = [sched EXCEPT !.tasks[r].on = "con"]
    /\ UNCHANGED data_vars

\* What the query k of tool gives on database d: the BM25 query needs the
\* tables and the index, every other query the tables.
ConOutcomes(d, tool, k) ==
    IF tool = "busca_empresa" /\ k = 1
    THEN IF d.loaded /\ d.fts THEN {"row", "norow"} ELSE {"caught"}
    ELSE IF d.loaded THEN {"row", "norow"} ELSE {"raise"}

\* The query of the tool of request r ends (fetchone, fetchall, or the
\* exception of execute).  busca_empresa goes on to its second query when
\* the first gave no row or a CatalogException; otherwise the tool returns
\* to the agent, or its exception ends the agent run and ask.
ConFetch(r) ==
    /\ sched.tasks[r].on = "con"
    /\ \E o \in ConOutcomes(db, sched.tasks[r].tool, sched.tasks[r].k) :
         LET t == sched.tasks[r]
             again == t.k < NQueries(t.tool) /\ o \in {"norow", "caught"}
         IN  sched' = [sched EXCEPT !.tasks[r] =
                 [t EXCEPT !.on = "none",
                           !.k = IF again THEN @ + 1 ELSE 0,
                           !.tool = IF again THEN @ ELSE "none",
                           !.pc = IF again THEN "tool"
                                  ELSE IF o = "raise" THEN "failed"
                                  ELSE "agent"]]
    /\ UNCHANGED data_vars

\* The agent run of request r ends with its final result, with or without
\* a cnpj; the handler waits for the event loop.
AgentEnd(r, found) ==
    /\ sched.tasks[r].pc = "agent"
    /\ sched' = [sched EXCEPT !.tasks[r].pc = "resume",
                              !.tasks[r].found = found]
    /\ UNCHANGED data_vars

InitConc ==
    /\ db \in {FreshDb, AskDb}
    /\ call = NoCall
    /\ chat_history = <<>>
    /\ long_term_memory = <<>>
    /\ now = 0
    /\ uuids = 0
    /\ reqs = <<>>
    /\ df_raw = <<>>
    /\ vec = NoCall
    /\ sched = Idle

NextConc ==
    \/ \E user \in BOOLEAN, question \in BOOLEAN : Arrive(user, question)
    \/ \E r \in 1..Len(sched.tasks) : Run(r)
    \/ \E r \in 1..Len(sched.tasks) : MemExecute(r)
    \/ \E r \in 1..Len(sched.tasks), rows \in BOOLEAN : MemFetch(r, rows)
    \/ \E r \in 1..Len(sched.tasks) : Await(r)
    \/ \E r \in 1..Len(sched.tasks) : Return(r)
    \/ \E r \in 1..Len(sched.tasks), tool \in Tools : ToolCall(r, tool)
    \/ \E r \in 1..Len(sched.tasks) : ConExecute(r)
    \/ \E r \in 1..Len(sched.tasks) : ConFetch(r)
    \/ \E r \in 1..Len(sched.tasks), found \in BOOLEAN : AgentEnd(r, found)

SpecConc == InitConc /\ [][NextConc]_vars

\* The handlers that have a query in progress on connection c.
InProgress(c) == { r \in 1..Len(sched.tasks) : sched.tasks[r].on = c }

\* C12: the queries on the shared connections con and mem_con are
\* serialized: with two or more /ask requests in flight, the lookup tools
\* of their agents included, no two queries on the same connection are in
\* progress at the same time.
C12_QueriesSerialized ==
    \A c \in {"con", "mem_con"} : Cardinality(InProgress(c)) <= 1

---------------------------------------------------------------------------
(* db_init.py: the CNAE vectors.  A coordinate of the float32 array is      *)
(* counted in units of 1/Scale, in which 1.0, 0.3 and the float32 numbers   *)
(* between 0.25 and 2 are all whole.                                        *)

MaxRows == 2
MaxSec == 2

Scale == 10 * (2 ^ 25)

SEC_WEIGHT == (3 * Scale) \div 10

\* The float32 nearest to x, for x = 0 or 0.25 <= x < 2: the spacing of
\* float32 is 2^-25 below 0.5, 2^-24 below 1 and 2^-23 below 2.
F32(x) ==
    LET ulp == IF x >= Scale THEN 40 ELSE IF 2 * x >= Scale THEN 20 ELSE 10
    IN  IF x = 0 THEN 0 ELSE ((x + ulp \div 2) \div ulp) * ulp

\* Python's max(a, b): a unless b is greater.
PyMax(a, b) == IF b > a THEN b ELSE a

\* Sample CNAE codes: K1 and K2 share their first 5 characters, K4 is short.
K1 == <<"6", "2", "0", "2", "3", "0", "0">>
K2 == <<"6", "2", "0", "2", "3", "9", "9">>
K3 == <<"4", "7", "1", "1", "3", "0", "1">>
K4 == <<"1", "2", "3">>

CodePoint(c) ==
    CASE c = " " -> 32 [] c = "," -> 44 [] c = "0" -> 48 [] c = "1" -> 49
      [] c = "2" -> 50 [] c = "3" -> 51 [] c = "4" -> 52 [] c = "5" -> 53
      [] c = "6" -> 54 [] c = "7" -> 55 [] c = "8" -> 56 [] c = "9" -> 57

\* a < b for Python strings.
RECURSIVE StrLess(_, _)
StrLess(a, b) ==
    IF a = <<>> THEN b # <<>>
    ELSE IF b = <<>> THEN FALSE
    ELSE IF Head(a) # Head(b) THEN CodePoint(Head(a)) < CodePoint(Head(b))
    ELSE StrLess(Tail(a), Tail(b))

\* first_5(txt): (txt or "")[:5].
first_5(txt) ==
    LET t == IF txt = None THEN <<>> ELSE txt
    IN  SubSeq(t, 1, Min(5, Len(t)))

\* txt.split(",").
RECURSIVE Split(_)
Split(txt) ==
    LET commas == { i \in 1..Len(txt) : txt[i] = "," }
    IN  IF commas = {} THEN <<txt>>
        ELSE LET i == CHOOSE c \in commas : \A d \in commas : c <= d
             IN  <<SubSeq(txt, 1, i - 1)>> \o Split(SubSeq(txt, i + 1, Len(txt)))

\* The codes the taxonomy loop adds for one row (pri, sec).
RowCodes(pri, sec) ==
    (IF Truthy(pri) THEN {first_5(pri)} ELSE {})
    \cup LET parts == Split(IF sec = None THEN <<>> ELSE sec)
         IN  { first_5(Strip(parts[k])) :
                 k \in { j \in 1..Len(parts) : Strip(parts[j]) # <<>> } }

\* code2idx = {code: idx for idx, code in enumerate(sorted(codes))}.
code2idx(rows) ==
    LET codes == UNION { RowCodes(rows[k].cnae_fiscal_principal,
                                  rows[k].cnae_fiscal_secundaria) :
                           k \in 1..Len(rows) }
    IN  [c \in codes |-> Cardinality({ d \in codes : StrLess(d, c) })]

\* split_sec(txt).
split_sec(txt) ==
    LET parts == Split(IF txt = None THEN <<>> ELSE txt)
        keep == SelectSeq(parts, LAMBDA q : Strip(q) # <<>>)
    IN  [k \in 1..Len(keep) |-> first_5(keep[k])]

KeyError(key) == [kind |-> "raise", exc |-> "KeyError", key |-> key]

\* The loop `for c in sec_list` of make_vec on the array v.
RECURSIVE SecLoop(_, _, _)
SecLoop(c2i, v, sec_list) ==
    IF sec_list = <<>> THEN [kind |-> "vec", v |-> v]
    ELSE LET c == Head(sec_list)
         IN  IF c \notin DOMAIN c2i THEN KeyError(c)
             ELSE SecLoop(c2i,
                          [v EXCEPT ![c2i[c]] = F32(PyMax(v[c2i[c]], SEC_WEIGHT))],
                          Tail(sec_list))

\* The same loop writing the weight without max().
RECURSIVE SecLoopNoMax(_, _, _)
SecLoopNoMax(c2i, v, sec_list) ==
    IF sec_list = <<>> THEN [kind |-> "vec", v |-> v]
    ELSE LET c == Head(sec_list)
         IN  IF c \notin DOMAIN c2i THEN KeyError(c)
             ELSE SecLoopNoMax(c2i, [v EXCEPT ![c2i[c]] = F32(SEC_WEIGHT)],
                               Tail(sec_list))

MakeVecNoMax(c2i, pri, sec_list) ==
    LET zeros == [i \in 0..(Cardinality(DOMAIN c2i) - 1) |-> 0]
    IN  IF Truthy(pri)
        THEN IF first_5(pri) \notin DOMAIN c2i THEN KeyError(first_5(pri))
             ELSE SecLoopNoMax(c2i,
                               [zeros EXCEPT ![c2i[first_5(pri)]] = F32(Scale)],
                               sec_list)
        ELSE SecLoopNoMax(c2i, zeros, sec_list)

\* make_vec(pri, sec_list) with the taxonomy c2i: the list v.tolist(), or
\* the KeyError of a code that is not in the taxonomy.
make_vec(c2i, pri, sec_list) ==
    LET zeros == [i \in 0..(Cardinality(DOMAIN c2i) - 1) |-> 0]
    IN  IF Truthy(pri)
        THEN IF first_5(pri) \notin DOMAIN c2i THEN KeyError(first_5(pri))
             ELSE SecLoop(c2i, [zeros EXCEPT ![c2i[first_5(pri)]] = F32(Scale)],
                          sec_list)
        ELSE SecLoop(c2i, zeros, sec_list)

\* The values of the columns cnae_fiscal_principal and cnae_fiscal_secundaria.
PriSamples == {None, <<>>, K1, K3, K4}
SecSamples == {None, K2 \o <<",">> \o K3, K4 \o <<",", " ">> \o K3}

\* The keys a caller may pass in sec_list.
SecKeys == {first_5(K1), first_5(K3), K4}

DfRaws ==
    UNION { { [i \in 1..k |->
                 [cnpj_basico |-> CnpjOf[i],
                  cnae_fiscal_principal |-> f[i][1],
                  cnae_fiscal_secundaria |-> f[i][2]]] :
               f \in [1..k -> {None, K1, K3} \X SecSamples] } :
            k \in 0..MaxRows }

InitVec ==
    /\ df_raw \in DfRaws
    /\ vec = NoCall
    /\ db = FreshDb
    /\ call = NoCall
    /\ chat_history = <<>>
    /\ long_term_memory = <<>>
    /\ now = 0
    /\ uuids = 0
    /\ reqs = <<>>
    /\ sched = Idle

\* One call of make_vec, with any arguments, under the taxonomy of df_raw.
CallMakeVec ==
    /\ vec = NoCall
    /\ \E pri \in PriSamples, sec_list \in SeqUpTo(SecKeys, MaxSec) :
         vec' = [fn |-> "make_vec", pri |-> pri, sec_list |-> sec_list,
                 out |-> make_vec(code2idx(df_raw), pri, sec_list)]
    /\ UNCHANGED <<db, call, chat_history, long_term_memory, now, uuids, reqs,
                   df_raw, sched>>

NextVec == CallMakeVec

SpecVec == InitVec /\ [][NextVec]_vars

---------------------------------------------------------------------------
(* db_init.py: the list `records`, one vector per row of df_raw, built in   *)
(* row order under the taxonomy of the same df_raw.  A KeyError of make_vec *)
(* ends the comprehension and the script.                                   *)

NoError == [kind |-> "none"]

\* The next row of df_raw is vectorised:
\* make_vec(row.cnae_fiscal_principal, split_sec(row.cnae_fiscal_secundaria)).
NextRecord ==
    /\ \/ vec = NoCall
       \/ /\ vec.fn = "records"
          /\ vec.error = NoError
    /\ LET so_far == IF vec = NoCall THEN <<>> ELSE vec.records
       IN  /\ Len(so_far) < Len(df_raw)
           /\ LET row == df_raw[Len(so_far) + 1]
                  out == make_vec(code2idx(df_raw), row.cnae_fiscal_principal,
                                  split_sec(row.cnae_fiscal_secundaria))
              IN  vec' = IF IsRaise(out)
                         THEN [fn |-> "records", records |-> so_far,
                               error |-> out]
                         ELSE [fn |-> "records",
                               records |-> Append(so_far,
                                                  <<row.cnpj_basico, out.v>>),
                               error |-> NoError]
    /\ UNCHANGED <<db, call, chat_history, long_term_memory, now, uuids, reqs,
                   df_raw, sched>>

NextRecords == NextRecord

SpecRecords == InitVec /\ [][NextRecords]_vars

\* The keys split_sec gives for the secondary codes of row k.
SplitSecKeys(k) ==
    LET keys == split_sec(df_raw[k].cnae_fiscal_secundaria)
    IN  { keys[j] : j \in 1..Len(keys) }

\* C13: the taxonomy code2idx built from the dataset holds the key of every
\* code make_vec looks up for a row of that dataset, so building the
\* vectors never raises a lookup error; the keys split_sec gives for a row's
\* secondary codes (also those written with whitespace after the comma) are
\* the keys the taxonomy loop added for that row.
C13_TaxonomyCoversRows ==
    vec.fn = "records" =>
        /\ vec.error = NoError
        /\ \A k \in 1..Len(df_raw) :
             SplitSecKeys(k) \subseteq
                 RowCodes(None, df_raw[k].cnae_fiscal_secundaria)

=============================================================================
